---- MODULE Spec2Model ----
(***************************************************************************)
(* State-machine model of the two FHEVM contracts of the repository:       *)
(*   contracts/PrivateListCheck.sol    (encrypted whitelist / blacklist)    *)
(*   PrivateServiceRatings (v1.1)      (encrypted sum / count per service)  *)
(*                                                                         *)
(* A behaviour is the life of ONE deployed contract: Init picks which one  *)
(* was constructed (variable deployed); the two contracts share no storage *)
(* and never call each other.  Every external function is one action; a    *)
(* transaction that reverts leaves storage and the ACL untouched and only  *)
(* records its error string in the variable outcome.                       *)
(*                                                                         *)
(* Ciphertext handles are modelled as the FHEVM coprocessor computes them: *)
(* a handle is a function of the operator and of its operand handles       *)
(* (the executor hashes them), so a handle is the term that produced it.   *)
(* Plain(h) is the plaintext a decryption of h would resolve to.           *)
(***************************************************************************)
EXTENDS Integers, Sequences, FiniteSets, TLC

\* ------------------------------------------------------------------ bounds
NumKeys == 1           \* service ids 1..NumKeys
MaxTx == 3             \* successful (state-changing) transactions of a PrivateListCheck
MaxRatingTx == 4       \* successful transactions of a PrivateServiceRatings

Users == {1, 2}         \* externally owned accounts
ZeroAddress == 0
Deployer == 1
ThisList == 11          \* address of the PrivateListCheck contract
ThisRatings == 12       \* address of the PrivateServiceRatings contract
AddrValues == {1, 2}    \* plaintext addresses a user may encrypt
ServiceIds == 1 .. NumKeys
RatingValues == {0, 1, 4, 5, 9}

NoHandle == << >>

\* -------------------------------------------------- FHE library (handles)
\* externalEaddress / externalEuint32 + proof: a ciphertext encrypted by
\* `user` for contract `c`; the proof binds the handle to both.
ExternalInput(type, user, c, v) == <<"input", type, user, c, v>>

FHE_asEbool(b) == <<"trivialEncrypt", "ebool", IF b THEN 1 ELSE 0>>
FHE_asEuint32(v) == <<"trivialEncrypt", "euint32", v>>
FHE_eq(a, b) == <<"fheEq", a, b>>
FHE_or(a, b) == <<"fheBitOr", a, b>>
FHE_and(a, b) == <<"fheBitAnd", a, b>>
FHE_ge(a, b) == <<"fheGe", a, b>>
FHE_le(a, b) == <<"fheLe", a, b>>
FHE_add(a, b) == <<"fheAdd", a, b>>
FHE_select(c, a, b) == <<"fheIfThenElse", c, a, b>>

B2I(b) == IF b THEN 1 ELSE 0

\* euint32 addition wraps at 2^32; an accumulator here never exceeds
\* 5 * NumUsers, so the wrap is out of reach and Plain adds exactly.

RECURSIVE Plain(_)
Plain(h) ==
  CASE h[1] = "input" -> h[5]
    [] h[1] = "trivialEncrypt" -> h[3]
    [] h[1] = "fheEq" -> B2I(Plain(h[2]) = Plain(h[3]))
    [] h[1] = "fheBitOr" -> B2I(Plain(h[2]) = 1 \/ Plain(h[3]) = 1)
    [] h[1] = "fheBitAnd" -> B2I(Plain(h[2]) = 1 /\ Plain(h[3]) = 1)
    [] h[1] = "fheGe" -> B2I(Plain(h[2]) >= Plain(h[3]))
    [] h[1] = "fheLe" -> B2I(Plain(h[2]) <= Plain(h[3]))
    [] h[1] = "fheAdd" -> Plain(h[2]) + Plain(h[3])
    [] h[1] = "fheIfThenElse" -> IF Plain(h[2]) = 1 THEN Plain(h[3]) ELSE Plain(h[4])

\* ------------------------------------------------------------------ state
VARIABLES
  deployed,     \* address of the contract this behaviour is about
  owner,        \* address public owner
  whitelist,    \* Entry[] private _whitelist
  blacklist,    \* Entry[] private _blacklist
  last,         \* ebool private _last
  hasLast,      \* bool private _hasLast
  svc,          \* mapping(bytes32 => Aggregates) private _svc
  rated,        \* mapping(bytes32 => mapping(address => bool)) private _rated
  allowed,      \* ACL: persistent grants, pairs <<handle, account>>
  publicH,      \* ACL: handles flagged publicly decryptable
  outcome,      \* the last transaction: function, caller, revert reason, events
  nTx           \* number of transactions mined so far that did not revert

persisted == <<deployed, owner, whitelist, blacklist, last, hasLast, svc, rated, allowed, publicH>>
vars == <<deployed, owner, whitelist, blacklist, last, hasLast, svc, rated, allowed, publicH, outcome, nTx>>

Entry(v, a) == [value |-> v, active |-> a]
NoAggregates == [exists |-> FALSE, sum |-> NoHandle, count |-> NoHandle]

\* ACL primitives (FHE.allow, FHE.allowThis, FHE.makePubliclyDecryptable)
Allow(acc, h, account) == acc \cup {<<h, account>>}
isGranted(h, p) == <<h, p>> \in allowed
isPublic(h) == h \in publicH

\* op: the function called; err: "" or the revert reason; index: the index,
\* service id or new owner the call is about (0 where a revert happens before
\* the argument is read, or there is none); q: the verified input handle;
\* ret: the returned handle; events: the events emitted
Call(op, caller, err, index, q, ret, events) ==
  [op |-> op, caller |-> caller, err |-> err, index |-> index, q |-> q,
   ret |-> ret, events |-> events]

\* a reverted transaction: nothing persisted, no event, only the reason
Revert(op, caller, err, index, q) ==
  /\ outcome' = Call(op, caller, err, index, q, NoHandle, << >>)
  /\ UNCHANGED persisted
  /\ UNCHANGED nTx

\* a mined transaction: its return value and the events it emitted
Success(op, caller, index, q, ret, events) ==
  /\ nTx < (IF deployed = ThisRatings THEN MaxRatingTx ELSE MaxTx)
  /\ nTx' = nTx + 1
  /\ outcome' = Call(op, caller, "", index, q, ret, events)

Init ==
  /\ deployed \in {ThisList, ThisRatings}
  /\ owner = Deployer
  /\ whitelist = << >>
  /\ blacklist = << >>
  /\ last = NoHandle
  /\ hasLast = FALSE
  /\ svc = [k \in ServiceIds |-> NoAggregates]
  /\ rated = [k \in ServiceIds |-> [u \in Users |-> FALSE]]
  /\ allowed = {}
  /\ publicH = {}
  /\ outcome = Call("constructor", Deployer, "", 0, NoHandle, NoHandle, << >>)
  /\ nTx = 0

\* ------------------------------------------------ Ownable (both contracts)
\* variant: the modifier compares with the deployer, not the current owner
onlyDeployer(caller) == caller = Deployer

\* modifier onlyOwner: require(msg.sender == owner, "Not owner")
onlyOwner(caller) == caller = owner

\* variant: the require(newOwner != address(0), "Zero owner") is missing
transferOwnershipNoZeroCheck(caller, newOwner) ==
  IF ~onlyOwner(caller) THEN Revert("transferOwnership", caller, "Not owner", 0, NoHandle)
  ELSE /\ owner' = newOwner
       /\ Success("transferOwnership", caller, newOwner, NoHandle, NoHandle, << >>)
       /\ UNCHANGED <<deployed, whitelist, blacklist, last, hasLast, svc, rated, allowed, publicH>>

transferOwnership(caller, newOwner) ==
  IF ~onlyOwner(caller) THEN Revert("transferOwnership", caller, "Not owner", 0, NoHandle)
  ELSE IF newOwner = ZeroAddress THEN Revert("transferOwnership", caller, "Zero owner", 0, NoHandle)
  ELSE /\ owner' = newOwner
       /\ Success("transferOwnership", caller, newOwner, NoHandle, NoHandle, << >>)
       /\ UNCHANGED <<deployed, whitelist, blacklist, last, hasLast, svc, rated, allowed, publicH>>

\* ------------------------------------------------- PrivateListCheck: admin
IsList == deployed = ThisList

\* variant: the index is the length after the push, not length - 1
addToWhitelistIndexAfterPush(caller, v, proofOk) ==
  /\ IsList
  /\ IF ~onlyOwner(caller) THEN Revert("addToWhitelist", caller, "Not owner", 0, NoHandle)
     ELSE IF ~proofOk THEN Revert("addToWhitelist", caller, "InvalidProof", 0, NoHandle)
     ELSE LET enc == ExternalInput("eaddress", caller, ThisList, v)
              index == Len(whitelist) + 1
          IN /\ allowed' = Allow(allowed, enc, ThisList)
             /\ whitelist' = Append(whitelist, Entry(enc, TRUE))
             /\ Success("addToWhitelist", caller, index, enc, NoHandle,
                                <<<<"EntryAdded", TRUE, index>>>>)
             /\ UNCHANGED <<deployed, owner, blacklist, last, hasLast, svc, rated, publicH>>

addToWhitelist(caller, v, proofOk) ==
  /\ IsList
  /\ IF ~onlyOwner(caller) THEN Revert("addToWhitelist", caller, "Not owner", 0, NoHandle)
     ELSE IF ~proofOk THEN Revert("addToWhitelist", caller, "InvalidProof", 0, NoHandle)
     ELSE LET enc == ExternalInput("eaddress", caller, ThisList, v)
              index == Len(whitelist)
          IN /\ allowed' = Allow(allowed, enc, ThisList)
             /\ whitelist' = Append(whitelist, Entry(enc, TRUE))
             /\ Success("addToWhitelist", caller, index, enc, NoHandle,
                                <<<<"EntryAdded", TRUE, index>>>>)
             /\ UNCHANGED <<deployed, owner, blacklist, last, hasLast, svc, rated, publicH>>

\* variant: the FHE.allowThis(enc) is missing
addToBlacklistNoAllowThis(caller, v, proofOk) ==
  /\ IsList
  /\ IF ~onlyOwner(caller) THEN Revert("addToBlacklist", caller, "Not owner", 0, NoHandle)
     ELSE IF ~proofOk THEN Revert("addToBlacklist", caller, "InvalidProof", 0, NoHandle)
     ELSE LET enc == ExternalInput("eaddress", caller, ThisList, v)
              index == Len(blacklist)
          IN /\ blacklist' = Append(blacklist, Entry(enc, TRUE))
             /\ Success("addToBlacklist", caller, index, enc, NoHandle,
                                <<<<"EntryAdded", FALSE, index>>>>)
             /\ UNCHANGED <<deployed, owner, whitelist, last, hasLast, svc, rated, allowed, publicH>>

addToBlacklist(caller, v, proofOk) ==
  /\ IsList
  /\ IF ~onlyOwner(caller) THEN Revert("addToBlacklist", caller, "Not owner", 0, NoHandle)
     ELSE IF ~proofOk THEN Revert("addToBlacklist", caller, "InvalidProof", 0, NoHandle)
     ELSE LET enc == ExternalInput("eaddress", caller, ThisList, v)
              index == Len(blacklist)
          IN /\ allowed' = Allow(allowed, enc, ThisList)
             /\ blacklist' = Append(blacklist, Entry(enc, TRUE))
             /\ Success("addToBlacklist", caller, index, enc, NoHandle,
                                <<<<"EntryAdded", FALSE, index>>>>)
             /\ UNCHANGED <<deployed, owner, whitelist, last, hasLast, svc, rated, publicH>>

\* Solidity indices are 0-based; the sequence position of index i is i + 1
removeFromWhitelist(caller, index) ==
  /\ IsList
  /\ IF ~onlyOwner(caller) THEN Revert("removeFromWhitelist", caller, "Not owner", 0, NoHandle)
     ELSE IF ~(index < Len(whitelist)) THEN Revert("removeFromWhitelist", caller, "OOB", index, NoHandle)
     ELSE IF ~whitelist[index + 1].active THEN Revert("removeFromWhitelist", caller, "Already removed", index, NoHandle)
     ELSE /\ whitelist' = [whitelist EXCEPT ![index + 1].active = FALSE]
          /\ Success("removeFromWhitelist", caller, index, NoHandle, NoHandle,
                             <<<<"EntryRemoved", TRUE, index>>>>)
          /\ UNCHANGED <<deployed, owner, blacklist, last, hasLast, svc, rated, allowed, publicH>>

\* variant: the require(e.active, "Already removed") is missing
removeFromBlacklistNoActiveCheck(caller, index) ==
  /\ IsList
  /\ IF ~onlyOwner(caller) THEN Revert("removeFromBlacklist", caller, "Not owner", 0, NoHandle)
     ELSE IF ~(index < Len(blacklist)) THEN Revert("removeFromBlacklist", caller, "OOB", index, NoHandle)
     ELSE /\ blacklist' = [blacklist EXCEPT ![index + 1].active = FALSE]
          /\ Success("removeFromBlacklist", caller, index, NoHandle, NoHandle,
                             <<<<"EntryRemoved", FALSE, index>>>>)
          /\ UNCHANGED <<deployed, owner, whitelist, last, hasLast, svc, rated, allowed, publicH>>

removeFromBlacklist(caller, index) ==
  /\ IsList
  /\ IF ~onlyOwner(caller) THEN Revert("removeFromBlacklist", caller, "Not owner", 0, NoHandle)
     ELSE IF ~(index < Len(blacklist)) THEN Revert("removeFromBlacklist", caller, "OOB", index, NoHandle)
     ELSE IF ~blacklist[index + 1].active THEN Revert("removeFromBlacklist", caller, "Already removed", index, NoHandle)
     ELSE /\ blacklist' = [blacklist EXCEPT ![index + 1].active = FALSE]
          /\ Success("removeFromBlacklist", caller, index, NoHandle, NoHandle,
                             <<<<"EntryRemoved", FALSE, index>>>>)
          /\ UNCHANGED <<deployed, owner, whitelist, last, hasLast, svc, rated, allowed, publicH>>

\* variant: clear only marks every entry inactive and keeps the array
clearWhitelistSoft(caller) ==
  /\ IsList
  /\ IF ~onlyOwner(caller) THEN Revert("clearWhitelist", caller, "Not owner", 0, NoHandle)
     ELSE /\ whitelist' = [i \in 1 .. Len(whitelist) |-> Entry(whitelist[i].value, FALSE)]
          /\ Success("clearWhitelist", caller, 0, NoHandle, NoHandle,
                             <<<<"SetCleared", TRUE>>>>)
          /\ UNCHANGED <<deployed, owner, blacklist, last, hasLast, svc, rated, allowed, publicH>>

\* variant: a copy-paste slip, clearWhitelist deletes _blacklist
clearWhitelistDeletesBlacklist(caller) ==
  /\ IsList
  /\ IF ~onlyOwner(caller) THEN Revert("clearWhitelist", caller, "Not owner", 0, NoHandle)
     ELSE /\ blacklist' = << >>
          /\ Success("clearWhitelist", caller, 0, NoHandle, NoHandle,
                             <<<<"SetCleared", TRUE>>>>)
          /\ UNCHANGED <<deployed, owner, whitelist, last, hasLast, svc, rated, allowed, publicH>>

clearWhitelist(caller) ==
  /\ IsList
  /\ IF ~onlyOwner(caller) THEN Revert("clearWhitelist", caller, "Not owner", 0, NoHandle)
     ELSE /\ whitelist' = << >>
          /\ Success("clearWhitelist", caller, 0, NoHandle, NoHandle,
                             <<<<"SetCleared", TRUE>>>>)
          /\ UNCHANGED <<deployed, owner, blacklist, last, hasLast, svc, rated, allowed, publicH>>

\* variant: clearing a list also forgets the last result
clearBlacklistResetLast(caller) ==
  /\ IsList
  /\ IF ~onlyOwner(caller) THEN Revert("clearBlacklist", caller, "Not owner", 0, NoHandle)
     ELSE /\ blacklist' = << >>
          /\ last' = NoHandle
          /\ hasLast' = FALSE
          /\ Success("clearBlacklist", caller, 0, NoHandle, NoHandle,
                             <<<<"SetCleared", FALSE>>>>)
          /\ UNCHANGED <<deployed, owner, whitelist, svc, rated, allowed, publicH>>

clearBlacklist(caller) ==
  /\ IsList
  /\ IF ~onlyOwner(caller) THEN Revert("clearBlacklist", caller, "Not owner", 0, NoHandle)
     ELSE /\ blacklist' = << >>
          /\ Success("clearBlacklist", caller, 0, NoHandle, NoHandle,
                             <<<<"SetCleared", FALSE>>>>)
          /\ UNCHANGED <<deployed, owner, whitelist, last, hasLast, svc, rated, allowed, publicH>>

\* ------------------------------------------------- PrivateListCheck: views
whitelistLength == Len(whitelist)
blacklistLength == Len(blacklist)
ActiveCount(set) == Cardinality({i \in 1 .. Len(set) : set[i].active})
activeCounts == [wlActive |-> ActiveCount(whitelist), blActive |-> ActiveCount(blacklist)]
getLastResultHandle == IF hasLast THEN last ELSE NoHandle

\* ------------------------------------------------- PrivateListCheck: _scan
\* variant: the fold keeps only the latest hit (found = hit)
RECURSIVE ScanLoopLastHit(_, _, _, _, _)
ScanLoopLastHit(set, query, i, found, scanned) ==
  IF i > Len(set) THEN [found |-> found, scanned |-> scanned]
  ELSE IF ~set[i].active THEN ScanLoopLastHit(set, query, i + 1, found, scanned)
  ELSE ScanLoopLastHit(set, query, i + 1, FHE_eq(query, set[i].value), scanned + 1)

\* variant: the loop does not skip soft-removed entries
RECURSIVE ScanLoopNoSkip(_, _, _, _, _)
ScanLoopNoSkip(set, query, i, found, scanned) ==
  IF i > Len(set) THEN [found |-> found, scanned |-> scanned]
  ELSE ScanLoopNoSkip(set, query, i + 1, FHE_or(found, FHE_eq(query, set[i].value)), scanned + 1)

\* variant: scanned is incremented before the active test
RECURSIVE ScanLoopCountAll(_, _, _, _, _)
ScanLoopCountAll(set, query, i, found, scanned) ==
  IF i > Len(set) THEN [found |-> found, scanned |-> scanned]
  ELSE IF ~set[i].active THEN ScanLoopCountAll(set, query, i + 1, found, scanned + 1)
  ELSE ScanLoopCountAll(set, query, i + 1, FHE_or(found, FHE_eq(query, set[i].value)), scanned + 1)

\* the loop of _scan from position i on, carrying (found, scanned)
RECURSIVE ScanLoop(_, _, _, _, _)
ScanLoop(set, query, i, found, scanned) ==
  IF i > Len(set) THEN [found |-> found, scanned |-> scanned]
  ELSE IF ~set[i].active THEN ScanLoop(set, query, i + 1, found, scanned)
  ELSE LET hit == FHE_eq(query, set[i].value)
       IN ScanLoop(set, query, i + 1, FHE_or(found, hit), scanned + 1)

\* variant: the fold starts from true instead of false
scanSeedTrue(set, query) == ScanLoop(set, query, 1, FHE_asEbool(TRUE), 0)

scan(set, query) == ScanLoop(set, query, 1, FHE_asEbool(FALSE), 0)


\* ------------------------------------------------ PrivateListCheck: checks
checkWhitelist(caller, v, proofOk) ==
  /\ IsList
  /\ IF ~proofOk THEN Revert("checkWhitelist", caller, "InvalidProof", 0, NoHandle)
     ELSE LET q == ExternalInput("eaddress", caller, ThisList, v)
              r == scan(whitelist, q)
          IN /\ allowed' = Allow(Allow(allowed, r.found, ThisList), r.found, caller)
             /\ last' = r.found
             /\ hasLast' = TRUE
             /\ Success("checkWhitelist", caller, 0, q, r.found,
                                <<<<"MembershipChecked", caller, TRUE, r.scanned, r.found>>>>)
             /\ UNCHANGED <<deployed, owner, whitelist, blacklist, svc, rated, publicH>>

checkWhitelistPublic(caller, v, proofOk) ==
  /\ IsList
  /\ IF ~proofOk THEN Revert("checkWhitelistPublic", caller, "InvalidProof", 0, NoHandle)
     ELSE LET q == ExternalInput("eaddress", caller, ThisList, v)
              r == scan(whitelist, q)
          IN /\ allowed' = Allow(allowed, r.found, ThisList)
             /\ publicH' = publicH \cup {r.found}
             /\ last' = r.found
             /\ hasLast' = TRUE
             /\ Success("checkWhitelistPublic", caller, 0, q, r.found,
                                <<<<"MembershipChecked", caller, TRUE, r.scanned, r.found>>>>)
             /\ UNCHANGED <<deployed, owner, whitelist, blacklist, svc, rated>>

\* variant: the caller is not granted the result
checkBlacklistNoAllow(caller, v, proofOk) ==
  /\ IsList
  /\ IF ~proofOk THEN Revert("checkBlacklist", caller, "InvalidProof", 0, NoHandle)
     ELSE LET q == ExternalInput("eaddress", caller, ThisList, v)
              r == scan(blacklist, q)
          IN /\ allowed' = Allow(allowed, r.found, ThisList)
             /\ last' = r.found
             /\ hasLast' = TRUE
             /\ Success("checkBlacklist", caller, 0, q, r.found,
                        <<<<"MembershipChecked", caller, FALSE, r.scanned, r.found>>>>)
             /\ UNCHANGED <<deployed, owner, whitelist, blacklist, svc, rated, publicH>>

checkBlacklist(caller, v, proofOk) ==
  /\ IsList
  /\ IF ~proofOk THEN Revert("checkBlacklist", caller, "InvalidProof", 0, NoHandle)
     ELSE LET q == ExternalInput("eaddress", caller, ThisList, v)
              r == scan(blacklist, q)
          IN /\ allowed' = Allow(Allow(allowed, r.found, ThisList), r.found, caller)
             /\ last' = r.found
             /\ hasLast' = TRUE
             /\ Success("checkBlacklist", caller, 0, q, r.found,
                                <<<<"MembershipChecked", caller, FALSE, r.scanned, r.found>>>>)
             /\ UNCHANGED <<deployed, owner, whitelist, blacklist, svc, rated, publicH>>

checkBlacklistPublic(caller, v, proofOk) ==
  /\ IsList
  /\ IF ~proofOk THEN Revert("checkBlacklistPublic", caller, "InvalidProof", 0, NoHandle)
     ELSE LET q == ExternalInput("eaddress", caller, ThisList, v)
              r == scan(blacklist, q)
          IN /\ allowed' = Allow(allowed, r.found, ThisList)
             /\ publicH' = publicH \cup {r.found}
             /\ last' = r.found
             /\ hasLast' = TRUE
             /\ Success("checkBlacklistPublic", caller, 0, q, r.found,
                                <<<<"MembershipChecked", caller, FALSE, r.scanned, r.found>>>>)
             /\ UNCHANGED <<deployed, owner, whitelist, blacklist, svc, rated>>

\* variant: the public flag is toggled instead of set
makeLastPublicToggle(caller) ==
  /\ IsList
  /\ IF ~hasLast THEN Revert("makeLastPublic", caller, "No last result", 0, NoHandle)
     ELSE /\ publicH' = IF last \in publicH THEN publicH \ {last} ELSE publicH \cup {last}
          /\ Success("makeLastPublic", caller, 0, NoHandle, NoHandle, << >>)
          /\ UNCHANGED <<deployed, owner, whitelist, blacklist, last, hasLast, svc, rated, allowed>>

\* variant: makeLastPublic is restricted to the owner
makeLastPublicOnlyOwner(caller) ==
  /\ IsList
  /\ IF ~onlyOwner(caller) THEN Revert("makeLastPublic", caller, "Not owner", 0, NoHandle)
     ELSE IF ~hasLast THEN Revert("makeLastPublic", caller, "No last result", 0, NoHandle)
     ELSE /\ publicH' = publicH \cup {last}
          /\ Success("makeLastPublic", caller, 0, NoHandle, NoHandle, << >>)
          /\ UNCHANGED <<deployed, owner, whitelist, blacklist, last, hasLast, svc, rated, allowed>>

makeLastPublic(caller) ==
  /\ IsList
  /\ IF ~hasLast THEN Revert("makeLastPublic", caller, "No last result", 0, NoHandle)
     ELSE /\ publicH' = publicH \cup {last}
          /\ Success("makeLastPublic", caller, 0, NoHandle, NoHandle, << >>)
          /\ UNCHANGED <<deployed, owner, whitelist, blacklist, last, hasLast, svc, rated, allowed>>

\* the (plaintext, proof verifies) pairs a caller may submit; with a proof
\* that does not verify FHE.fromExternal reverts before the value is used,
\* so one such pair stands for all
ProvenInputs(values) ==
  {<<v, TRUE>> : v \in values} \cup {<<CHOOSE v \in values : TRUE, FALSE>>}

NextList ==
  \/ \E c \in Users, in \in ProvenInputs(AddrValues) : addToWhitelist(c, in[1], in[2])
  \/ \E c \in Users, in \in ProvenInputs(AddrValues) : addToBlacklist(c, in[1], in[2])
  \/ \E c \in Users, i \in 0 .. Len(whitelist) : removeFromWhitelist(c, i)
  \/ \E c \in Users, i \in 0 .. Len(blacklist) : removeFromBlacklist(c, i)
  \/ \E c \in Users : clearWhitelist(c)
  \/ \E c \in Users : clearBlacklist(c)
  \/ \E c \in Users, in \in ProvenInputs(AddrValues) : checkWhitelist(c, in[1], in[2])
  \/ \E c \in Users, in \in ProvenInputs(AddrValues) : checkWhitelistPublic(c, in[1], in[2])
  \/ \E c \in Users, in \in ProvenInputs(AddrValues) : checkBlacklist(c, in[1], in[2])
  \/ \E c \in Users, in \in ProvenInputs(AddrValues) : checkBlacklistPublic(c, in[1], in[2])
  \/ \E c \in Users : makeLastPublic(c)

\* --------------------------------------------------- PrivateServiceRatings
IsRatings == deployed = ThisRatings

\* variant: no re-creation, the stored ciphertext itself is published
RefreshNone(h) == h

\* variant: the re-creation adds 1 instead of 0
RefreshPlusOne(h) == FHE_add(h, FHE_asEuint32(1))

\* re-creation of a ciphertext in the current transaction: x + 0
Refresh(h) == FHE_add(h, FHE_asEuint32(0))

\* variant: upper bound tested with < instead of <=
RatingValidOffByOne(rating) == FHE_and(FHE_ge(rating, FHE_asEuint32(1)), FHE_le(rating, FHE_asEuint32(4)))

\* the range predicate 1 <= rating <= 5 of submitRating
RatingValid(rating) == FHE_and(FHE_ge(rating, FHE_asEuint32(1)), FHE_le(rating, FHE_asEuint32(5)))

\* variant: re-initialising a service also forgets who rated it
initServiceResetReceipts(caller, serviceId) ==
  /\ IsRatings
  /\ IF ~onlyOwner(caller) THEN Revert("initService", caller, "Not owner", 0, NoHandle)
     ELSE LET sum == FHE_asEuint32(0)
              count == FHE_asEuint32(0)
          IN /\ svc' = [svc EXCEPT ![serviceId] = [exists |-> TRUE, sum |-> sum, count |-> count]]
             /\ rated' = [rated EXCEPT ![serviceId] = [u \in Users |-> FALSE]]
             /\ allowed' = Allow(Allow(allowed, sum, ThisRatings), count, ThisRatings)
             /\ Success("initService", caller, serviceId, NoHandle, NoHandle,
                        <<<<"ServiceInitialized", serviceId>>>>)
             /\ UNCHANGED <<deployed, owner, whitelist, blacklist, last, hasLast, publicH>>

initService(caller, serviceId) ==
  /\ IsRatings
  /\ IF ~onlyOwner(caller) THEN Revert("initService", caller, "Not owner", 0, NoHandle)
     ELSE LET sum == FHE_asEuint32(0)
              count == FHE_asEuint32(0)
          IN /\ svc' = [svc EXCEPT ![serviceId] = [exists |-> TRUE, sum |-> sum, count |-> count]]
             /\ allowed' = Allow(Allow(allowed, sum, ThisRatings), count, ThisRatings)
             /\ Success("initService", caller, serviceId, NoHandle, NoHandle,
                        <<<<"ServiceInitialized", serviceId>>>>)
             /\ UNCHANGED <<deployed, owner, whitelist, blacklist, last, hasLast, rated, publicH>>

\* variant: only the refreshed sum is marked publicly decryptable
makeAggregatesPublicSumOnly(caller, serviceId) ==
  /\ IsRatings
  /\ IF ~onlyOwner(caller) THEN Revert("makeAggregatesPublic", caller, "Not owner", 0, NoHandle)
     ELSE IF ~svc[serviceId].exists THEN Revert("makeAggregatesPublic", caller, "Service not found", serviceId, NoHandle)
     ELSE LET sum2 == Refresh(svc[serviceId].sum)
              count2 == Refresh(svc[serviceId].count)
          IN /\ allowed' = Allow(Allow(allowed, sum2, ThisRatings), count2, ThisRatings)
             /\ publicH' = publicH \cup {sum2}
             /\ svc' = [svc EXCEPT ![serviceId].sum = sum2, ![serviceId].count = count2]
             /\ Success("makeAggregatesPublic", caller, serviceId, NoHandle, NoHandle,
                        <<<<"AggregatesMadePublic", serviceId>>>>)
             /\ UNCHANGED <<deployed, owner, whitelist, blacklist, last, hasLast, rated>>

\* variant: the refreshed handles are published but not saved back
makeAggregatesPublicNoSave(caller, serviceId) ==
  /\ IsRatings
  /\ IF ~onlyOwner(caller) THEN Revert("makeAggregatesPublic", caller, "Not owner", 0, NoHandle)
     ELSE IF ~svc[serviceId].exists THEN Revert("makeAggregatesPublic", caller, "Service not found", serviceId, NoHandle)
     ELSE LET sum2 == Refresh(svc[serviceId].sum)
              count2 == Refresh(svc[serviceId].count)
          IN /\ allowed' = Allow(Allow(allowed, sum2, ThisRatings), count2, ThisRatings)
             /\ publicH' = publicH \cup {sum2, count2}
             /\ Success("makeAggregatesPublic", caller, serviceId, NoHandle, NoHandle,
                        <<<<"AggregatesMadePublic", serviceId>>>>)
             /\ UNCHANGED <<deployed, owner, whitelist, blacklist, last, hasLast, svc, rated>>

makeAggregatesPublic(caller, serviceId) ==
  /\ IsRatings
  /\ IF ~onlyOwner(caller) THEN Revert("makeAggregatesPublic", caller, "Not owner", 0, NoHandle)
     ELSE IF ~svc[serviceId].exists THEN Revert("makeAggregatesPublic", caller, "Service not found", serviceId, NoHandle)
     ELSE LET sum2 == Refresh(svc[serviceId].sum)
              count2 == Refresh(svc[serviceId].count)
          IN /\ allowed' = Allow(Allow(allowed, sum2, ThisRatings), count2, ThisRatings)
             /\ publicH' = publicH \cup {sum2, count2}
             /\ svc' = [svc EXCEPT ![serviceId].sum = sum2, ![serviceId].count = count2]
             /\ Success("makeAggregatesPublic", caller, serviceId, NoHandle, NoHandle,
                        <<<<"AggregatesMadePublic", serviceId>>>>)
             /\ UNCHANGED <<deployed, owner, whitelist, blacklist, last, hasLast, rated>>

\* variant: the count is incremented whether the rating is valid or not
incCntAlways(rating) == FHE_asEuint32(1)

\* variant: the rating is added to the sum without the range gate
incValUngated(rating) == rating

\* valid ? rating : 0   and   valid ? 1 : 0
incVal(rating) == FHE_select(RatingValid(rating), rating, FHE_asEuint32(0))
incCnt(rating) == FHE_select(RatingValid(rating), FHE_asEuint32(1), FHE_asEuint32(0))

\* variant: the new sum is built from zero, not from the stored sum
newSumFromZero(sum, rating) == FHE_add(FHE_asEuint32(0), incVal(rating))

\* the new aggregates of submitRating, from the stored ones and the rating
newSum(sum, rating) == FHE_add(sum, incVal(rating))
newCount(count, rating) == FHE_add(count, incCnt(rating))

\* submitRating after its three requires: the aggregation and the writes
SubmitBody(caller, serviceId, v) ==
  LET rating == ExternalInput("euint32", caller, ThisRatings, v)
      sum2 == newSum(svc[serviceId].sum, rating)
      count2 == newCount(svc[serviceId].count, rating)
  IN /\ svc' = [svc EXCEPT ![serviceId].sum = sum2, ![serviceId].count = count2]
     /\ allowed' = allowed \cup {<<sum2, ThisRatings>>, <<count2, ThisRatings>>,
                                 <<sum2, caller>>, <<count2, caller>>}
     /\ rated' = [rated EXCEPT ![serviceId][caller] = TRUE]
     /\ Success("submitRating", caller, serviceId, rating, NoHandle,
                <<<<"RatingSubmitted", serviceId, caller, sum2, count2>>>>)
     /\ UNCHANGED <<deployed, owner, whitelist, blacklist, last, hasLast, publicH>>

\* variant: the receipt is written before the proof is verified and a bad
\* proof returns without undoing it
submitRatingEarlyReceipt(caller, serviceId, v, proofOk) ==
  /\ IsRatings
  /\ IF ~svc[serviceId].exists THEN Revert("submitRating", caller, "Service not found", serviceId, NoHandle)
     ELSE IF rated[serviceId][caller] THEN Revert("submitRating", caller, "Already rated", serviceId, NoHandle)
     ELSE IF ~proofOk
       THEN /\ rated' = [rated EXCEPT ![serviceId][caller] = TRUE]
            /\ outcome' = Call("submitRating", caller, "InvalidProof", serviceId, NoHandle, NoHandle, << >>)
            /\ UNCHANGED <<deployed, owner, whitelist, blacklist, last, hasLast, svc, allowed, publicH, nTx>>
     ELSE SubmitBody(caller, serviceId, v)

\* variant: the duplicate check is missing
submitRatingNoGuard(caller, serviceId, v, proofOk) ==
  /\ IsRatings
  /\ IF ~svc[serviceId].exists THEN Revert("submitRating", caller, "Service not found", serviceId, NoHandle)
     ELSE IF ~proofOk THEN Revert("submitRating", caller, "InvalidProof", serviceId, NoHandle)
     ELSE SubmitBody(caller, serviceId, v)

\* variant: the proof is verified before the two requires
submitRatingProofFirst(caller, serviceId, v, proofOk) ==
  /\ IsRatings
  /\ IF ~proofOk THEN Revert("submitRating", caller, "InvalidProof", serviceId, NoHandle)
     ELSE IF ~svc[serviceId].exists THEN Revert("submitRating", caller, "Service not found", serviceId, NoHandle)
     ELSE IF rated[serviceId][caller] THEN Revert("submitRating", caller, "Already rated", serviceId, NoHandle)
     ELSE SubmitBody(caller, serviceId, v)

submitRating(caller, serviceId, v, proofOk) ==
  /\ IsRatings
  /\ IF ~svc[serviceId].exists THEN Revert("submitRating", caller, "Service not found", serviceId, NoHandle)
     ELSE IF rated[serviceId][caller] THEN Revert("submitRating", caller, "Already rated", serviceId, NoHandle)
     ELSE IF ~proofOk THEN Revert("submitRating", caller, "InvalidProof", serviceId, NoHandle)
     ELSE SubmitBody(caller, serviceId, v)

hasRated(serviceId, user) == rated[serviceId][user]
getAggregateHandles(serviceId) == <<svc[serviceId].sum, svc[serviceId].count>>

NextRatings ==
  \/ \E c \in Users, k \in ServiceIds : initService(c, k)
  \/ \E c \in Users, k \in ServiceIds : makeAggregatesPublic(c, k)
  \/ \E c \in Users, k \in ServiceIds, in \in ProvenInputs(RatingValues) :
       submitRating(c, k, in[1], in[2])

Next ==
  \/ \E c \in Users, n \in Users \cup {ZeroAddress} : transferOwnership(c, n)
  \/ NextList
  \/ NextRatings

Spec == Init /\ [][Next]_vars

\* ===================================================================== claims
CheckOps == {"checkWhitelist", "checkWhitelistPublic", "checkBlacklist", "checkBlacklistPublic"}
PrivateCheckOps == {"checkWhitelist", "checkBlacklist"}
PublicCheckOps == {"checkWhitelistPublic", "checkBlacklistPublic"}
\* the last transaction was a membership check that did not revert
CheckDone == outcome.op \in CheckOps /\ outcome.err = ""
\* the list that check scanned (a check leaves both lists as they were)
CheckedSet == IF outcome.op \in {"checkWhitelist", "checkWhitelistPublic"} THEN whitelist ELSE blacklist
SomeActiveEquals(set, q) == \E i \in 1 .. Len(set) : set[i].active /\ Plain(set[i].value) = Plain(q)
Perms(n) == {f \in [1 .. n -> 1 .. n] : \A i, j \in 1 .. n : f[i] = f[j] => i = j}
Permuted(set, f) == [i \in 1 .. Len(set) |-> set[f[i]]]
IsActive(e) == e.active
ActiveOnly(set) == SelectSeq(set, IsActive)
SubmitDone == outcome.op = "submitRating" /\ outcome.err = ""
PlainSum(k) == Plain(svc[k].sum)
PlainCount(k) == Plain(svc[k].count)

\* C1 (fold correctness): the result of a successful check decrypts to true
\* exactly when some entry that is active at call time has the plaintext of
\* the query, and scanning any permutation of the entries gives the same
\* plaintext result.
C1_FoldCorrectness ==
  CheckDone =>
    /\ (Plain(outcome.ret) = 1) <=> SomeActiveEquals(CheckedSet, outcome.q)
    /\ \A f \in Perms(Len(CheckedSet)) :
         Plain(scan(Permuted(CheckedSet, f), outcome.q).found) = Plain(outcome.ret)

\* a check over two or more entries, one matching the query and one active
\* entry not matching it
C1_Witness ==
  /\ CheckDone
  /\ Len(CheckedSet) >= 2
  /\ Plain(outcome.ret) = 1
  /\ \E i \in 1 .. Len(CheckedSet) :
       CheckedSet[i].active /\ Plain(CheckedSet[i].value) # Plain(outcome.q)

NoRevive(old, new) ==
  \A i \in 1 .. Len(old) : (i <= Len(new) /\ ~old[i].active) => ~new[i].active

\* C2 (soft-delete exclusion): no step turns a removed entry active again,
\* and every successful check returns exactly the handle a scan of the list
\* without its removed entries returns, so it is true iff an entry that is
\* still active equals the query.
C2_SoftDeleteExclusion ==
  [][/\ NoRevive(whitelist, whitelist')
     /\ NoRevive(blacklist, blacklist')
     /\ CheckDone' =>
          /\ outcome'.ret = scan(ActiveOnly(CheckedSet'), outcome'.q).found
          /\ (Plain(outcome'.ret) = 1) <=> SomeActiveEquals(CheckedSet', outcome'.q)]_vars

\* a check for q after the only entry equal to q was soft-removed: false
C2_Witness ==
  /\ CheckDone
  /\ \E i \in 1 .. Len(CheckedSet) :
       ~CheckedSet[i].active /\ Plain(CheckedSet[i].value) = Plain(outcome.q)
  /\ Plain(outcome.ret) = 0

\* C3 (duplicate guard): a receipt is never removed, and a submitRating by a
\* principal who already has a receipt for the key fails with "Already rated"
\* and leaves the stored sum and count handles as they were.
C3_DuplicateGuard ==
  [][/\ \A k \in ServiceIds, u \in Users : rated[k][u] => rated'[k][u]
     /\ (outcome'.op = "submitRating" /\ rated[outcome'.index][outcome'.caller]) =>
          /\ outcome'.err = "Already rated"
          /\ svc' = svc]_vars

\* a second submitRating was rejected after the key was initialised again
C3_Witness ==
  /\ outcome.op = "submitRating"
  /\ outcome.err = "Already rated"
  /\ svc[outcome.index].sum = FHE_asEuint32(0)

\* C4 (range gating): a submitRating that passes the three requires always
\* records the receipt; a value in 1..5 adds the value to sum and 1 to count,
\* any other value leaves both plaintexts unchanged.  With the key
\* initialised and no receipt, the only possible failure is the proof.
C4_RangeGating ==
  [][outcome'.op = "submitRating" =>
       LET k == outcome'.index
           u == outcome'.caller
           v == Plain(outcome'.q)
       IN /\ (svc[k].exists /\ ~rated[k][u]) => outcome'.err \in {"", "InvalidProof"}
          /\ outcome'.err = "" =>
               /\ rated'[k][u]
               /\ IF v \in 1 .. 5
                  THEN Plain(svc'[k].sum) = PlainSum(k) + v /\ Plain(svc'[k].count) = PlainCount(k) + 1
                  ELSE Plain(svc'[k].sum) = PlainSum(k) /\ Plain(svc'[k].count) = PlainCount(k)]_vars

\* an out-of-range rating was accepted after an in-range one: the receipt
\* exists and the aggregate still shows only the first rating
C4_Witness ==
  /\ SubmitDone
  /\ Plain(outcome.q) \notin 1 .. 5
  /\ rated[outcome.index][outcome.caller]
  /\ PlainCount(outcome.index) = 1

\* C5 (result access): the handle a successful check returns is the stored
\* last result and is already granted: to the contract and the caller for
\* the private checks, to the contract and to everyone for the public ones.
C5_ResultAccess ==
  CheckDone =>
    /\ outcome.ret = getLastResultHandle
    /\ isGranted(outcome.ret, ThisList)
    /\ outcome.op \in PrivateCheckOps => isGranted(outcome.ret, outcome.caller)
    /\ outcome.op \in PublicCheckOps => isPublic(outcome.ret)
    /\ isPublic(outcome.ret) \/ \E u \in Users : isGranted(outcome.ret, u)

\* a private check by a caller who is not the owner, on a non-empty list
C5_Witness ==
  /\ CheckDone
  /\ outcome.op \in PrivateCheckOps
  /\ outcome.caller # owner
  /\ Len(CheckedSet) > 0
  /\ ~isPublic(outcome.ret)

\* the accumulators stored for key k are both publicly decryptable
StoredPublic(k) == svc[k].exists /\ isPublic(svc[k].sum) /\ isPublic(svc[k].count)
StoredPublicNext(k) == svc'[k].exists /\ svc'[k].sum \in publicH' /\ svc'[k].count \in publicH'
KnownHandles == {e[1] : e \in allowed} \cup publicH
ExposeDone == outcome.op = "makeAggregatesPublic" /\ outcome.err = ""

\* C6 as stated (monotonic exposure): once the accumulators stored for a key
\* are publicly decryptable, the accumulators stored for it are publicly
\* decryptable after every further step.
C6_MonotonicExposure_Original ==
  [][\A k \in ServiceIds : StoredPublic(k) => StoredPublicNext(k)]_vars

\* C6 amended: a successful makeAggregatesPublic leaves the stored sum and
\* count public; the handles it published stay public for ever; and the
\* stored handles stay public across every step that is not a successful
\* submitRating or initService on that key.
C6_MonotonicExposure ==
  [][/\ ExposeDone' => StoredPublicNext(outcome'.index)
     /\ \A k \in ServiceIds : StoredPublic(k) =>
          /\ svc[k].sum \in publicH' /\ svc[k].count \in publicH'
          /\ ~(outcome'.err = "" /\ outcome'.op \in {"submitRating", "initService"}
               /\ outcome'.index = k) => StoredPublicNext(k)]_vars

\* the accumulators are still public after an ownership transfer that
\* followed the exposure
C6_Witness ==
  /\ outcome.op = "transferOwnership"
  /\ outcome.err = ""
  /\ \E k \in ServiceIds : StoredPublic(k)

\* C7 (freshness before disclosure): a successful makeAggregatesPublic makes
\* public nothing but the two handles it stores, which differ from the
\* handles stored before, are granted to the contract, are public and carry
\* the same plaintexts; every handle the ACL knew before the call keeps its
\* public flag and its grants.
C7_FreshnessBeforeDisclosure ==
  [][ExposeDone' =>
       LET k == outcome'.index
       IN /\ publicH' \ publicH \subseteq {svc'[k].sum, svc'[k].count}
          /\ \A h \in KnownHandles :
               /\ (h \in publicH') <=> (h \in publicH)
               /\ \A p \in Users \cup {ThisList, ThisRatings} :
                    (<<h, p>> \in allowed') <=> (<<h, p>> \in allowed)
          /\ svc'[k].sum # svc[k].sum /\ svc'[k].count # svc[k].count
          /\ <<svc'[k].sum, ThisRatings>> \in allowed' /\ <<svc'[k].count, ThisRatings>> \in allowed'
          /\ svc'[k].sum \in publicH' /\ svc'[k].count \in publicH'
          /\ Plain(svc'[k].sum) = Plain(svc[k].sum)
          /\ Plain(svc'[k].count) = Plain(svc[k].count)]_vars

\* an exposure after a contribution: the contributor still holds a private
\* grant on a handle that is not public, and the aggregate is not zero
C7_Witness ==
  /\ ExposeDone
  /\ PlainCount(outcome.index) = 1
  /\ \E u \in Users, h \in KnownHandles : isGranted(h, u) /\ ~isPublic(h)

\* C8 (monotonic registry): no step removes a grant or a public flag, and
\* makeLastPublic on a last result that is already public succeeds and
\* changes neither storage nor the registry.
C8_MonotonicRegistry ==
  [][/\ allowed \subseteq allowed'
     /\ publicH \subseteq publicH'
     /\ (outcome'.op = "makeLastPublic" /\ hasLast /\ isPublic(last)) =>
          (outcome'.err = "" /\ UNCHANGED persisted)]_vars

\* makeLastPublic succeeded on the result of a public check (no account was
\* ever granted it, so it was public before the call)
C8_Witness ==
  /\ outcome.op = "makeLastPublic"
  /\ outcome.err = ""
  /\ isPublic(last)
  /\ \A u \in Users : ~isGranted(last, u)

Errors == {"Not owner", "Zero owner", "OOB", "Already removed", "Service not found",
           "Already rated", "InvalidProof", "No last result"}

\* C9 (atomic failure): a transaction that reverts emits no event and leaves
\* owner, both lists, the last result, the aggregates, the receipts and the
\* registry exactly as they were; every outcome is a success or one of the
\* known errors.
C9_AtomicFailure ==
  [][/\ outcome'.err \in Errors \cup {""}
     /\ outcome'.err # "" => (UNCHANGED persisted /\ outcome'.events = << >>)]_vars

\* a submitRating with a bad proof on an initialised key left no receipt
C9_Witness ==
  /\ outcome.op = "submitRating"
  /\ outcome.err = "InvalidProof"
  /\ svc[outcome.index].exists
  /\ ~rated[outcome.index][outcome.caller]

AdminOps == {"addToWhitelist", "addToBlacklist", "removeFromWhitelist", "removeFromBlacklist",
             "clearWhitelist", "clearBlacklist", "initService", "makeAggregatesPublic",
             "transferOwnership"}

\* C10 (admin only): an admin operation called by anyone but the current
\* owner reverts with "Not owner" and changes neither the owner, nor a list,
\* nor an aggregate record.
C10_AdminOnly ==
  [][(outcome'.op \in AdminOps /\ outcome'.caller # owner) =>
       /\ outcome'.err = "Not owner"
       /\ UNCHANGED <<owner, whitelist, blacklist, svc>>]_vars

\* the deployer, after transferring ownership, is refused
C10_Witness ==
  /\ outcome.op \in AdminOps
  /\ outcome.err = "Not owner"
  /\ outcome.caller = Deployer
  /\ owner # Deployer

\* the list a check recorded in the next outcome scans, as it is before the call
CheckedSetNext == IF outcome'.op \in {"checkWhitelist", "checkWhitelistPublic"} THEN whitelist ELSE blacklist
\* scannedCount of the MembershipChecked event of a call record
ScannedCount(o) == o.events[1][4]

\* C11 as stated (empty set error): a check on a list that has no entries
\* (its proof not being the reason) fails with SetNotFound and changes no
\* state.
C11_EmptySetError_Original ==
  [][(outcome'.op \in CheckOps /\ Len(CheckedSetNext) = 0 /\ outcome'.err # "InvalidProof") =>
       (outcome'.err = "SetNotFound" /\ UNCHANGED persisted)]_vars

\* C11 amended: a check on a list that has no entries fails only on a bad
\* proof (changing nothing); with a valid proof it succeeds, scans 0 entries,
\* returns the trivial encryption of false, stores it as the last result and
\* grants it to the contract.
C11_EmptySetCheck ==
  [][(outcome'.op \in CheckOps /\ Len(CheckedSetNext) = 0) =>
       /\ outcome'.err \in {"", "InvalidProof"}
       /\ outcome'.err = "InvalidProof" => UNCHANGED persisted
       /\ outcome'.err = "" =>
            /\ outcome'.ret = FHE_asEbool(FALSE)
            /\ Plain(outcome'.ret) = 0
            /\ ScannedCount(outcome') = 0
            /\ hasLast' /\ last' = outcome'.ret
            /\ <<outcome'.ret, ThisList>> \in allowed']_vars

\* a successful check while both lists are empty although an entry had been
\* appended (its input handle is still granted): the list was cleared
C11_Witness ==
  /\ CheckDone
  /\ whitelist = << >> /\ blacklist = << >>
  /\ \E e \in allowed : e[1][1] = "input"
  /\ last = FHE_asEbool(FALSE)

\* C12 (scan count): the scannedCount in the MembershipChecked event of a
\* successful check is the number of active entries of the scanned list,
\* which is what activeCounts returns for it, whatever the result.
C12_ScanCount ==
  CheckDone =>
    /\ Len(outcome.events) = 1
    /\ outcome.events[1][1] = "MembershipChecked"
    /\ ScannedCount(outcome) = ActiveCount(CheckedSet)
    /\ ScannedCount(outcome) = IF outcome.op \in {"checkWhitelist", "checkWhitelistPublic"}
                                 THEN activeCounts.wlActive ELSE activeCounts.blActive

\* a check on a list that holds a soft-removed entry: it is not counted
C12_Witness ==
  /\ CheckDone
  /\ Len(CheckedSet) > 0
  /\ ScannedCount(outcome) < Len(CheckedSet)

\* C13 (error order of submitRating): a submitRating on a key that does not
\* exist always fails with "Service not found"; on an existing key, by a
\* caller who has a receipt, always with "Already rated"; so "InvalidProof"
\* is reported only for an existing key and a caller without receipt, and
\* only then can the call succeed.
C13_ErrorOrder ==
  [][outcome'.op = "submitRating" =>
       LET k == outcome'.index
           u == outcome'.caller
       IN /\ ~svc[k].exists => outcome'.err = "Service not found"
          /\ (svc[k].exists /\ rated[k][u]) => outcome'.err = "Already rated"
          /\ outcome'.err \in {"InvalidProof", ""} => (svc[k].exists /\ ~rated[k][u])
          /\ outcome'.err \in {"Service not found", "Already rated", "InvalidProof", ""}]_vars

\* a principal whose rating was counted is refused with "Already rated"
C13_Witness ==
  /\ outcome.op = "submitRating"
  /\ outcome.err = "Already rated"
  /\ rated[outcome.index][outcome.caller]
  /\ PlainCount(outcome.index) = 1

RemoveOps == {"removeFromWhitelist", "removeFromBlacklist"}
\* softRemove of 0-based index i took set to set2: only that entry changed,
\* and only its flag
RemovedAt(set, set2, i) ==
  /\ Len(set2) = Len(set)
  /\ \A j \in 1 .. Len(set) :
       /\ set2[j].value = set[j].value
       /\ set2[j].active = (set[j].active /\ j # i + 1)

\* C14 (softRemove errors): a remove called by the owner fails with "OOB"
\* when the index is not below the length, with "Already removed" when the
\* entry is inactive, and otherwise succeeds, clears exactly that entry's
\* flag and keeps the length, every other entry and the other list; so an
\* inactive entry is never removed successfully again.
C14_SoftRemoveErrors ==
  [][(outcome'.op \in RemoveOps /\ outcome'.caller = owner) =>
       LET wl == outcome'.op = "removeFromWhitelist"
           set == IF wl THEN whitelist ELSE blacklist
           set2 == IF wl THEN whitelist' ELSE blacklist'
           i == outcome'.index
       IN /\ i >= Len(set) => outcome'.err = "OOB"
          /\ (i < Len(set) /\ ~set[i + 1].active) => outcome'.err = "Already removed"
          /\ (i < Len(set) /\ set[i + 1].active) =>
               /\ outcome'.err = ""
               /\ RemovedAt(set, set2, i)
               /\ IF wl THEN blacklist' = blacklist ELSE whitelist' = whitelist
          /\ outcome'.err # "" => (whitelist' = whitelist /\ blacklist' = blacklist)]_vars

\* the second remove of the same index of the blacklist is refused
C14_Witness ==
  /\ outcome.op = "removeFromBlacklist"
  /\ outcome.err = "Already removed"
  /\ outcome.index < Len(blacklist)
  /\ ~blacklist[outcome.index + 1].active

AddOps == {"addToWhitelist", "addToBlacklist"}
\* an append took set to set2 and reported index i for the handle h
AppendedAt(set, set2, i, h) ==
  /\ i = Len(set)
  /\ Len(set2) = Len(set) + 1
  /\ set2[i + 1].active
  /\ set2[i + 1].value = h
  /\ \A j \in 1 .. Len(set) : set2[j] = set[j]
\* add and remove never shorten a list nor move or replace a stored value
IndicesStable ==
  outcome'.op \in AddOps \cup RemoveOps =>
    /\ Len(whitelist') >= Len(whitelist)
    /\ Len(blacklist') >= Len(blacklist)
    /\ \A j \in 1 .. Len(whitelist) : whitelist'[j].value = whitelist[j].value
    /\ \A j \in 1 .. Len(blacklist) : blacklist'[j].value = blacklist[j].value

\* C15 as stated (append and stable indices): an append called by the owner
\* always succeeds, reports the previous length as index, stores an active
\* entry there and keeps every existing entry; add and remove never shorten
\* or renumber a list.
C15_AppendStable_Original ==
  [][/\ (outcome'.op \in AddOps /\ outcome'.caller = owner) =>
          /\ outcome'.err = ""
          /\ IF outcome'.op = "addToWhitelist"
             THEN AppendedAt(whitelist, whitelist', outcome'.index, outcome'.q) /\ blacklist' = blacklist
             ELSE AppendedAt(blacklist, blacklist', outcome'.index, outcome'.q) /\ whitelist' = whitelist
     /\ IndicesStable]_vars

\* C15 amended: an append called by the owner fails only with
\* "InvalidProof", leaving both lists as they were; otherwise it reports the
\* previous length as index (also in its EntryAdded event), stores an active
\* entry there and keeps every existing entry and the other list; add and
\* remove never shorten or renumber a list.
C15_AppendStable ==
  [][/\ (outcome'.op \in AddOps /\ outcome'.caller = owner) =>
          /\ outcome'.err \in {"", "InvalidProof"}
          /\ outcome'.err = "InvalidProof" => (whitelist' = whitelist /\ blacklist' = blacklist)
          /\ outcome'.err = "" =>
               /\ outcome'.events[1][3] = outcome'.index
               /\ IF outcome'.op = "addToWhitelist"
                  THEN AppendedAt(whitelist, whitelist', outcome'.index, outcome'.q) /\ blacklist' = blacklist
                  ELSE AppendedAt(blacklist, blacklist', outcome'.index, outcome'.q) /\ whitelist' = whitelist
     /\ IndicesStable]_vars

\* an append to the whitelist after index 0 was soft-removed gets index 1
C15_Witness ==
  /\ outcome.op = "addToWhitelist"
  /\ outcome.err = ""
  /\ outcome.index = 1
  /\ ~whitelist[1].active
  /\ whitelist[2].active

ClearOps == {"clearWhitelist", "clearBlacklist"}
\* the list the call recorded in the next outcome is about, before the call
TargetSet ==
  IF outcome'.op \in {"addToWhitelist", "removeFromWhitelist", "clearWhitelist",
                      "checkWhitelist", "checkWhitelistPublic"}
  THEN whitelist ELSE blacklist
\* the value a list has right after construction
FreshSet == << >>

\* C16 (clear resets the set): a clear called by the owner succeeds, leaves
\* the list equal to a freshly constructed one (length 0, no active entry)
\* and the other list untouched; and on a list of length 0, cleared or never
\* used, an append gets index 0, every remove by the owner fails with "OOB"
\* and a successful check scans nothing and returns the encryption of false.
C16_ClearResets ==
  [][/\ (outcome'.op \in ClearOps /\ outcome'.caller = owner) =>
          /\ outcome'.err = ""
          /\ IF outcome'.op = "clearWhitelist"
             THEN whitelist' = FreshSet /\ blacklist' = blacklist
             ELSE blacklist' = FreshSet /\ whitelist' = whitelist
          /\ IF outcome'.op = "clearWhitelist"
             THEN whitelistLength' = 0 /\ activeCounts'.wlActive = 0
             ELSE blacklistLength' = 0 /\ activeCounts'.blActive = 0
     /\ (outcome'.op \in AddOps /\ outcome'.err = "" /\ TargetSet = FreshSet) =>
          outcome'.index = 0
     /\ (outcome'.op \in RemoveOps /\ outcome'.caller = owner /\ TargetSet = FreshSet) =>
          outcome'.err = "OOB"
     /\ (CheckDone' /\ TargetSet = FreshSet) =>
          (ScannedCount(outcome') = 0 /\ Plain(outcome'.ret) = 0)]_vars

\* the whitelist was cleared right after its only append: both lists are
\* empty, and the appended handle is still granted to the contract
C16_Witness ==
  /\ outcome.op = "clearWhitelist"
  /\ outcome.err = ""
  /\ nTx = 2
  /\ whitelist = FreshSet /\ blacklist = FreshSet
  /\ \E e \in allowed : e[1][1] = "input"

TransferDone == outcome.op = "transferOwnership" /\ outcome.err = ""

\* C17 (single transferable administrator): the owner is one account, the
\* deployer until a transaction succeeds, and never the zero address; it
\* changes only by a successful transferOwnership, which only the current
\* owner can make and only to a non-zero address, which then is the owner;
\* and whoever is not the owner, the previous holder included, gets
\* "Not owner" from every admin operation.
C17_SingleAdmin ==
  [][/\ owner \in Users /\ owner' \in Users
     /\ owner # ZeroAddress /\ owner' # ZeroAddress
     /\ nTx = 0 => owner = Deployer
     /\ owner' # owner => TransferDone'
     /\ TransferDone' =>
          /\ outcome'.caller = owner
          /\ outcome'.index # ZeroAddress
          /\ owner' = outcome'.index
          /\ outcome'.index # outcome'.caller => owner' # outcome'.caller
     /\ (outcome'.op = "transferOwnership" /\ outcome'.err = "Zero owner") =>
          (outcome'.caller = owner /\ owner' = owner)
     /\ (outcome'.op \in AdminOps /\ ~onlyOwner(outcome'.caller)) =>
          (outcome'.err = "Not owner" /\ owner' = owner)]_vars

\* the second owner handed ownership back to the deployer
C17_Witness ==
  /\ TransferDone
  /\ outcome.caller # Deployer
  /\ owner = Deployer

\* C18 (idempotent exposure): a successful makeAggregatesPublic on a key
\* whose stored accumulators are already public (the exposure is repeated)
\* keeps the plaintext sum and count, leaves the stored accumulators public,
\* changes no receipt, no owner and no other key, keeps every public handle
\* public, the previously stored ones included, and only replaces the two
\* stored handles by new ones.
C18_IdempotentExposure ==
  [][\A k \in ServiceIds :
       (StoredPublic(k) /\ ExposeDone' /\ outcome'.index = k) =>
         /\ Plain(svc'[k].sum) = PlainSum(k)
         /\ Plain(svc'[k].count) = PlainCount(k)
         /\ StoredPublicNext(k)
         /\ rated' = rated
         /\ owner' = owner
         /\ \A j \in ServiceIds \ {k} : svc'[j] = svc[j]
         /\ publicH \subseteq publicH'
         /\ svc[k].sum \in publicH' /\ svc[k].count \in publicH'
         /\ svc'[k].sum # svc[k].sum /\ svc'[k].count # svc[k].count]_vars

\* makeAggregatesPublic succeeded twice in a row: the stored sum is the
\* refresh of a handle that is public too
C18_Witness ==
  /\ ExposeDone
  /\ \E h \in publicH :
       /\ svc[outcome.index].sum = Refresh(h)
       /\ h # svc[outcome.index].sum
       /\ Plain(h) = PlainSum(outcome.index)

InitDone == outcome.op = "initService" /\ outcome.err = ""

\* C19 (re-initialization): initService called by the owner succeeds also
\* on a key that exists; it stores accumulators that are new trivial
\* encryptions, independent of the old ones, with plaintext sum 0 and count
\* 0, granted to the contract and not public, whatever was public before;
\* it changes no receipt, so who rated before is still refused with
\* "Already rated"; and no step makes an existing key not exist.
C19_Reinitialization ==
  [][/\ \A k \in ServiceIds : svc[k].exists => svc'[k].exists
     /\ (outcome'.op = "initService" /\ outcome'.caller = owner) =>
          LET k == outcome'.index
          IN /\ outcome'.err = ""
             /\ k \in ServiceIds
             /\ svc'[k].exists
             /\ svc'[k].sum = FHE_asEuint32(0) /\ svc'[k].count = FHE_asEuint32(0)
             /\ Plain(svc'[k].sum) = 0 /\ Plain(svc'[k].count) = 0
             /\ <<svc'[k].sum, ThisRatings>> \in allowed'
             /\ <<svc'[k].count, ThisRatings>> \in allowed'
             /\ svc'[k].sum \notin publicH' /\ svc'[k].count \notin publicH'
             /\ publicH' = publicH
             /\ rated' = rated
             /\ \A j \in ServiceIds \ {k} : svc'[j] = svc[j]
     /\ (outcome'.op = "submitRating" /\ InitDone /\ outcome'.index = outcome.index
           /\ rated[outcome.index][outcome'.caller]) =>
          outcome'.err = "Already rated"]_vars

\* a key was initialised again after a rating had been counted: the
\* aggregate is back to zero and the receipt is still there
C19_Witness ==
  /\ InitDone
  /\ \E u \in Users : rated[outcome.index][u]
  /\ PlainSum(outcome.index) = 0
  /\ PlainCount(outcome.index) = 0

\* C20 (one event per mutation): every transaction that succeeds, the
\* ownership transfer and makeLastPublic included, emits exactly one event,
\* and a transaction that reverts emits none.
C20_OneEventPerMutation ==
  [][/\ outcome'.err = "" => Len(outcome'.events) = 1
     /\ outcome'.err # "" => Len(outcome'.events) = 0]_vars

\* what a rating of plaintext v adds to the sum and to the count
GateVal(v) == IF v \in 1 .. 5 THEN v ELSE 0
GateCnt(v) == IF v \in 1 .. 5 THEN 1 ELSE 0

\* C21 (no lost update): a successful submitRating leaves the key existing
\* and the receipts of all other principals as they were, so it never
\* disables the call of another principal; and when p2's successful
\* submitRating directly follows p1's (p1 # p2) on the same key, there is a
\* base record b, stored before both, such that the stored sum and count are
\* b plus both gated values, the two calls applied to b in the other order
\* give the same plaintext sum and count, and the receipts are those held
\* before p2's call plus p2, p1 among them.
C21_NoLostUpdate ==
  [][SubmitDone' =>
       LET k == outcome'.index
           p2 == outcome'.caller
           r2 == outcome'.q
       IN /\ svc'[k].exists
          /\ \A u \in Users : rated'[k][u] <=> (rated[k][u] \/ u = p2)
          /\ \A j \in ServiceIds \ {k} : rated'[j] = rated[j] /\ svc'[j] = svc[j]
          /\ (SubmitDone /\ outcome.index = k /\ outcome.caller # p2) =>
               LET p1 == outcome.caller
                   r1 == outcome.q
               IN /\ rated'[k][p1] /\ rated'[k][p2]
                  /\ \E bs, bc \in KnownHandles :
                       /\ svc[k].sum = newSum(bs, r1)
                       /\ svc[k].count = newCount(bc, r1)
                       /\ Plain(svc'[k].sum) = Plain(bs) + GateVal(Plain(r1)) + GateVal(Plain(r2))
                       /\ Plain(svc'[k].count) = Plain(bc) + GateCnt(Plain(r1)) + GateCnt(Plain(r2))
                       /\ Plain(newSum(newSum(bs, r2), r1)) = Plain(svc'[k].sum)
                       /\ Plain(newCount(newCount(bc, r2), r1)) = Plain(svc'[k].count)]_vars

\* two principals rated 1 and 5 one after the other: sum 6, count 2
C21_Witness ==
  /\ SubmitDone
  /\ \A u \in Users : rated[outcome.index][u]
  /\ PlainSum(outcome.index) = 6
  /\ PlainCount(outcome.index) = 2

\* the ciphertext principal p submits for plaintext v
RatingOf(p, v) == ExternalInput("euint32", p, ThisRatings, v)
Zero32 == FHE_asEuint32(0)
\* the stages of the scenario on key k with principals a and b: the record
\* right after initService; after a's 4; after b's 9
AfterInit(k) ==
  /\ svc[k].exists /\ svc[k].sum = Zero32 /\ svc[k].count = Zero32
  /\ \A u \in Users : ~rated[k][u]
AfterFirst(k, a) ==
  /\ svc[k].sum = newSum(Zero32, RatingOf(a, 4))
  /\ svc[k].count = newCount(Zero32, RatingOf(a, 4))
  /\ \A u \in Users : rated[k][u] <=> u = a
AfterSecond(k, a, b) ==
  /\ svc[k].sum = newSum(newSum(Zero32, RatingOf(a, 4)), RatingOf(b, 9))
  /\ svc[k].count = newCount(newCount(Zero32, RatingOf(a, 4)), RatingOf(b, 9))
  /\ \A u \in Users : rated[k][u] <=> u \in {a, b}
AfterExpose(k, a, b) ==
  /\ svc[k].sum = Refresh(newSum(newSum(Zero32, RatingOf(a, 4)), RatingOf(b, 9)))
  /\ svc[k].count = Refresh(newCount(newCount(Zero32, RatingOf(a, 4)), RatingOf(b, 9)))
  /\ \A u \in Users : rated[k][u] <=> u \in {a, b}

\* C22 (end-to-end scenario): on a key just initialised, a's submitRating of
\* 4 succeeds and gives sum 4, count 1; then every submitRating of a fails
\* with "Already rated" and changes nothing; b's submitRating of 9 succeeds,
\* leaves sum 4 and count 1 and records b's receipt; and a
\* makeAggregatesPublic after that, which only the owner can make, leaves
\* the stored sum and count public with plaintexts 4 and 1.
C22_Scenario ==
  [][IsRatings => \A k \in ServiceIds, a, b \in Users : (a # b /\ outcome'.index = k) =>
       /\ (SubmitDone' /\ outcome'.caller = a /\ outcome'.q = RatingOf(a, 4)
             /\ AfterInit(k)) =>
            /\ AfterFirst(k, a)'
            /\ Plain(svc'[k].sum) = 4 /\ Plain(svc'[k].count) = 1
       /\ (outcome'.op = "submitRating" /\ outcome'.caller = a /\ AfterFirst(k, a)) =>
            /\ outcome'.err = "Already rated"
            /\ UNCHANGED persisted
       /\ (SubmitDone' /\ outcome'.caller = b /\ outcome'.q = RatingOf(b, 9)
             /\ AfterFirst(k, a)) =>
            /\ AfterSecond(k, a, b)'
            /\ Plain(svc'[k].sum) = 4 /\ Plain(svc'[k].count) = 1
            /\ hasRated(k, b)'
       /\ (ExposeDone' /\ AfterSecond(k, a, b)) =>
            /\ outcome'.caller = owner
            /\ AfterExpose(k, a, b)'
            /\ StoredPublicNext(k)
            /\ Plain(svc'[k].sum) = 4 /\ Plain(svc'[k].count) = 1]_vars

\* the end of the scenario: initService, 4 by a, 9 by b, makeAggregatesPublic
C22_Witness ==
  /\ ExposeDone
  /\ \E a, b \in Users : a # b /\ AfterExpose(outcome.index, a, b)
  /\ StoredPublic(outcome.index)
  /\ PlainSum(outcome.index) = 4
  /\ PlainCount(outcome.index) = 1

\* C23 (last-result cache): getLastResultHandle is the zero handle exactly
\* while no check has succeeded; a successful check, whichever list, mode
\* and caller, makes it the handle that check returned; and no other step,
\* reverted checks included, changes the pointer.
C23_LastResultCache ==
  [][/\ (getLastResultHandle = NoHandle) <=> ~hasLast
     /\ nTx = 0 => ~hasLast
     /\ hasLast => hasLast'
     /\ CheckDone' =>
          /\ hasLast'
          /\ getLastResultHandle' = outcome'.ret
          /\ outcome'.ret # NoHandle
     /\ ~CheckDone' => (last' = last /\ hasLast' = hasLast)]_vars

\* the blacklist was cleared after a check that scanned an entry of it: the
\* pointer still is the fold over that entry, which no list holds any more
C23_Witness ==
  /\ outcome.op = "clearBlacklist"
  /\ outcome.err = ""
  /\ whitelist = << >> /\ blacklist = << >>
  /\ hasLast
  /\ getLastResultHandle[1] = "fheBitOr"

\* the handles some account holds a grant on; in PrivateListCheck these are
\* the results of private checks
UserGranted == {e[1] : e \in {x \in allowed : x[2] \in Users}}
\* makeLastPublic fails with "No last result" exactly when there is no last
\* result; otherwise it succeeds for any caller and flags the last result
\* and nothing else
MakeLastPublicEffect ==
  outcome'.op = "makeLastPublic" =>
    /\ (outcome'.err = "No last result") <=> ~hasLast
    /\ hasLast =>
         /\ outcome'.err = ""
         /\ publicH' = publicH \cup {last}
         /\ allowed' = allowed
         /\ last' = last /\ hasLast' = hasLast

\* C24 as stated (makeLastPublic has no caller restriction): the effect
\* above, and hence the result of a private check becomes public only by a
\* makeLastPublic made while it is the last result.
C24_MakeLastPublic_Original ==
  [][IsList =>
       /\ MakeLastPublicEffect
       /\ \A h \in UserGranted : (h \notin publicH /\ h \in publicH') =>
            (outcome'.op = "makeLastPublic" /\ outcome'.err = "" /\ last = h)]_vars

\* C24 amended: the effect above; the result of a private check becomes
\* public only by a makeLastPublic made while it is the last result, or by a
\* successful public check that returns the very same handle.
C24_MakeLastPublic ==
  [][IsList =>
       /\ MakeLastPublicEffect
       /\ \A h \in UserGranted : (h \notin publicH /\ h \in publicH') =>
            \/ outcome'.op = "makeLastPublic" /\ outcome'.err = "" /\ last = h
            \/ outcome'.op \in PublicCheckOps /\ outcome'.err = "" /\ outcome'.ret = h]_vars

\* an account that is neither the owner nor granted the result made public
\* the result of another account's private check over a non-empty list
C24_Witness ==
  /\ outcome.op = "makeLastPublic"
  /\ outcome.err = ""
  /\ outcome.caller # owner
  /\ ~isGranted(last, outcome.caller)
  /\ \E u \in Users : isGranted(last, u)
  /\ last[1] = "fheBitOr"
  /\ isPublic(last)

\* the accounts holding a private grant on the sum or the count stored for k
Holders(k) == {u \in Users : isGranted(svc[k].sum, u) \/ isGranted(svc[k].count, u)}
\* the last transaction succeeded and wrote the record of key k
WroteKey(k) ==
  /\ outcome.err = ""
  /\ outcome.op \in {"initService", "submitRating", "makeAggregatesPublic"}
  /\ outcome.index = k

\* C25 (contributor access): for every key at most one account holds a
\* private grant on the stored sum or count; after a successful initService
\* or makeAggregatesPublic on the key it is nobody, after a successful
\* submitRating it is exactly the caller, who is granted both, and no other
\* step changes it; so an earlier contributor, who keeps the grants on the
\* handles of their own call, holds none on the stored ones.
C25_ContributorAccess ==
  [][IsRatings => \A k \in ServiceIds :
       /\ Cardinality(Holders(k)) <= 1
       /\ ~svc[k].exists => Holders(k) = {}
       /\ (WroteKey(k)' /\ outcome'.op \in {"initService", "makeAggregatesPublic"}) =>
            Holders(k)' = {}
       /\ (WroteKey(k)' /\ outcome'.op = "submitRating") =>
            /\ Holders(k)' = {outcome'.caller}
            /\ <<svc'[k].sum, outcome'.caller>> \in allowed'
            /\ <<svc'[k].count, outcome'.caller>> \in allowed'
            /\ \A u \in Holders(k) \ {outcome'.caller} :
                 /\ <<svc[k].sum, u>> \in allowed' \/ <<svc[k].count, u>> \in allowed'
                 /\ svc[k].sum # svc'[k].sum /\ svc[k].count # svc'[k].count
       /\ ~WroteKey(k)' => (Holders(k)' = Holders(k) /\ svc'[k] = svc[k])]_vars

\* after the second contribution to a key the first contributor has a
\* receipt but no grant on the stored handles, which are not public
C25_Witness ==
  /\ SubmitDone
  /\ Holders(outcome.index) = {outcome.caller}
  /\ \E u \in Users \ {outcome.caller} :
       /\ rated[outcome.index][u]
       /\ \E h \in UserGranted : isGranted(h, u)
  /\ ~isPublic(svc[outcome.index].sum)

Receipts(k) == {u \in Users : rated[k][u]}

\* C26 (aggregate invariant): no key exists initially, and whenever a step
\* leaves a new record for an existing key, its plaintext count is at most
\* the number of receipts and count <= sum <= 5 * count; a successful
\* initService sets both plaintexts to 0, a successful submitRating adds the
\* value and 1 when the value is in 1..5 and nothing otherwise, and no other
\* step, makeAggregatesPublic and reverted calls included, changes either
\* plaintext or the receipts: count and sum are the number and the total of
\* the in-range ratings accepted since the last initService.
C26_AggregateInvariant ==
  [][IsRatings => \A k \in ServiceIds :
       /\ nTx = 0 => ~svc[k].exists
       /\ (svc'[k] # svc[k] \/ rated'[k] # rated[k]) =>
            /\ svc'[k].exists
            /\ Plain(svc'[k].count) <= Cardinality({u \in Users : rated'[k][u]})
            /\ Plain(svc'[k].count) <= Plain(svc'[k].sum)
            /\ Plain(svc'[k].sum) <= 5 * Plain(svc'[k].count)
       /\ (WroteKey(k)' /\ outcome'.op = "initService") =>
            (Plain(svc'[k].sum) = 0 /\ Plain(svc'[k].count) = 0)
       /\ (WroteKey(k)' /\ outcome'.op = "submitRating") =>
            /\ Plain(svc'[k].sum) = PlainSum(k) + GateVal(Plain(outcome'.q))
            /\ Plain(svc'[k].count) = PlainCount(k) + GateCnt(Plain(outcome'.q))
       /\ ~(WroteKey(k)' /\ outcome'.op \in {"initService", "submitRating"}) =>
            /\ rated'[k] = rated[k]
            /\ svc'[k].exists = svc[k].exists
            /\ \/ svc'[k] = svc[k]
               \/ /\ Plain(svc'[k].sum) = PlainSum(k)
                  /\ Plain(svc'[k].count) = PlainCount(k)]_vars

\* two receipts but one counted rating: an out-of-range value was accepted
\* after a 4
C26_Witness ==
  /\ SubmitDone
  /\ Plain(outcome.q) \notin 1 .. 5
  /\ Cardinality(Receipts(outcome.index)) = 2
  /\ PlainCount(outcome.index) = 1
  /\ PlainSum(outcome.index) = 4

\* C27 (engine-self access): every handle in storage is granted to the
\* contract itself: the value of every whitelist and blacklist entry, active
\* or soft-removed, the sum and count of every existing service, and the
\* last result once there is one.
C27_EngineSelfAccess ==
  /\ \A i \in 1 .. Len(whitelist) : isGranted(whitelist[i].value, deployed)
  /\ \A i \in 1 .. Len(blacklist) : isGranted(blacklist[i].value, deployed)
  /\ \A k \in ServiceIds : svc[k].exists =>
       (isGranted(svc[k].sum, deployed) /\ isGranted(svc[k].count, deployed))
  /\ hasLast => isGranted(last, deployed)

\* a last result exists while the blacklist holds a soft-removed entry
C27_Witness ==
  /\ hasLast
  /\ \E i \in 1 .. Len(blacklist) : ~blacklist[i].active
  /\ isGranted(last, ThisList)

WhitelistAdminOps == {"addToWhitelist", "removeFromWhitelist", "clearWhitelist"}
BlacklistAdminOps == {"addToBlacklist", "removeFromBlacklist", "clearBlacklist"}

\* C28 (frame of check, list independence): a check, private or public, on
\* either list, by any caller, reverted or not, leaves both lists and the
\* owner as they were, and all it can change is the registry and the last
\* result; an admin operation on the whitelist leaves the blacklist as it
\* was, and one on the blacklist leaves the whitelist as it was.
C28_FrameAndIndependence ==
  [][/\ outcome'.op \in CheckOps =>
          /\ whitelist' = whitelist /\ blacklist' = blacklist
          /\ whitelistLength' = whitelistLength /\ blacklistLength' = blacklistLength
          /\ activeCounts' = activeCounts
          /\ owner' = owner
          /\ svc' = svc /\ rated' = rated
     /\ outcome'.op \in WhitelistAdminOps => blacklist' = blacklist
     /\ outcome'.op \in BlacklistAdminOps => whitelist' = whitelist]_vars

\* the whitelist was cleared while the blacklist holds an entry, which is
\* still there
C28_Witness ==
  /\ outcome.op = "clearWhitelist"
  /\ outcome.err = ""
  /\ nTx >= 2
  /\ whitelist = << >>
  /\ Len(blacklist) >= 1

====
